---- MODULE Spec2Model ----
(***************************************************************************)
(* Model of dokploy-logs-mcp: the MCP tool-call handler (src/src/index.ts, *)
(* the sanitizing revision that starts at line 320) and the SSH executor   *)
(* (src/src/ssh.ts).                                                       *)
(*                                                                         *)
(* A JavaScript string is a sequence of one-character strings; a literal   *)
(* piece of a template (" --tail ", "Error: ") is one multi-character      *)
(* element, so that the characters a caller supplied stay visible inside   *)
(* a concatenation.  The value undefined of an optional argument is the    *)
(* one-element sequence Undefined.                                         *)
(***************************************************************************)
EXTENDS Integers, Sequences, FiniteSets, TLC

\* Longest enumerated caller string.
MaxLen == 2

\* Longest enumerated suffix after a date prefix of a since value.
MaxSuffix == 3

-----------------------------------------------------------------------------
(* Characters *)

Lower == {"a","b","c","d","e","f","g","h","i","j","k","l","m",
          "n","o","p","q","r","s","t","u","v","w","x","y","z"}

Upper == {"A","B","C","D","E","F","G","H","I","J","K","L","M",
          "N","O","P","Q","R","S","T","U","V","W","X","Y","Z"}

Digit == {"0","1","2","3","4","5","6","7","8","9"}

\* String.prototype.trim strips these (the white space the model's outputs use).
WhiteSpace == {" ", "\t", "\n", "\r"}

\* The grave accent (U+0060), which a TLA+ string cannot hold.
Backtick == "<grave accent>"

\* All sequences over chars of length at most n.
Str(chars, n) == UNION {[1..k -> chars] : k \in 0..n}

Undefined == <<"<undefined>">>

\* JavaScript truthiness of an optional string argument.
Truthy(x) == x # Undefined /\ x # <<>>

\* a ?? b
Nullish(a, b) == IF a = Undefined THEN b ELSE a

\* a || b on strings
OrElse(a, b) == IF Truthy(a) THEN a ELSE b

Return(v) == [ok |-> TRUE, val |-> v]

Throw(msg) == [ok |-> FALSE, val |-> msg]

-----------------------------------------------------------------------------
(* Sanitizers, index.ts 330-351 *)

\* The character class [^a-zA-Z0-9_\-\.:] negated: what sanitizeName keeps.
NameClass == Lower \cup Upper \cup Digit \cup {"_", "-", ".", ":"}

\* input.replace(/[^...]/g, '')
RECURSIVE ReplaceAll(_, _)
ReplaceAll(input, removed) ==
    IF input = <<>> THEN <<>>
    ELSE IF Head(input) \in removed THEN ReplaceAll(Tail(input), removed)
    ELSE <<Head(input)>> \o ReplaceAll(Tail(input), removed)

RECURSIVE KeepOnly(_, _)
KeepOnly(input, kept) ==
    IF input = <<>> THEN <<>>
    ELSE IF Head(input) \in kept THEN <<Head(input)>> \o KeepOnly(Tail(input), kept)
    ELSE KeepOnly(Tail(input), kept)

sanitizeNameNoThrow(input) == Return(KeepOnly(input, NameClass))

sanitizeName(input) ==
    LET sanitized == KeepOnly(input, NameClass)
    IN  IF sanitized # input
        THEN Throw(<<"Invalid characters in input: ">> \o input)
        ELSE Return(sanitized)

AllIn(s, from, to, chars) == \A i \in from..to : s[i] \in chars

\* ^[0-9]+[smhd]$
MatchesRelative(input) ==
    /\ Len(input) >= 2
    /\ AllIn(input, 1, Len(input) - 1, Digit)
    /\ input[Len(input)] \in {"s", "m", "h", "d"}

\* ^\d{4}-\d{2}-\d{2}(T[\d:]+)?$
MatchesDate(input) ==
    /\ Len(input) >= 10
    /\ AllIn(input, 1, 4, Digit)
    /\ input[5] = "-"
    /\ AllIn(input, 6, 7, Digit)
    /\ input[8] = "-"
    /\ AllIn(input, 9, 10, Digit)
    /\ \/ Len(input) = 10
       \/ /\ Len(input) >= 12
          /\ input[11] = "T"
          /\ AllIn(input, 12, Len(input), Digit \cup {":"})

\* The same pattern without its end anchor.
MatchesRelativeUnanchored(input) ==
    \E n \in 2..Len(input) :
        /\ AllIn(input, 1, n - 1, Digit)
        /\ input[n] \in {"s", "m", "h", "d"}

timestampRegexUnanchored(input) == MatchesRelativeUnanchored(input) \/ MatchesDate(input)

timestampRegex(input) == MatchesRelative(input) \/ MatchesDate(input)

sanitizeTimestamp(input) ==
    IF ~timestampRegex(input)
    THEN Throw(<<"Invalid timestamp format: ">> \o input)
    ELSE Return(input)

\* The class [;&|`$(){}[\]<>\\!"'] of sanitizeGrepPattern.
GrepClass == {";", "&", "|", Backtick, "$", "(", ")", "{", "}", "[", "]",
              "<", ">", "\\", "!", "\"", "'"}

\* The class with the quotes left out.
GrepClassNoQuotes == GrepClass \ {"\"", "'"}

sanitizeGrepPatternNoQuotes(input) == ReplaceAll(input, GrepClassNoQuotes)

sanitizeGrepPattern(input) == ReplaceAll(input, GrepClass)

\* String.prototype.trim
RECURSIVE TrimStart(_)
TrimStart(s) ==
    IF s # <<>> /\ Head(s) \in WhiteSpace THEN TrimStart(Tail(s)) ELSE s

RECURSIVE TrimEnd(_)
TrimEnd(s) ==
    IF s # <<>> /\ s[Len(s)] \in WhiteSpace
    THEN TrimEnd(SubSeq(s, 1, Len(s) - 1)) ELSE s

Trim(s) == TrimEnd(TrimStart(s))

-----------------------------------------------------------------------------
(* JSON.parse and JSON.stringify on token sequences.  A JSON text is a      *)
(* sequence of tokens: the punctuation { } : , the literal null, a digit   *)
(* (a number) and the tokens of JsonStringTokens (each one a quoted        *)
(* string).  Arrays, booleans and insignificant white space are left out.  *)

JsonStringTokens == {"Name", "State", "Config", "Image", "Created", "NetworkSettings",
                     "Ports", "Env", "Mounts", "Id", "Status", "x"}

JNull == [t |-> "null"]

JUndefined == [t |-> "undefined"]

JStr(s) == [t |-> "str", s |-> s]

JNum(d) == [t |-> "num", s |-> d]

JObj(keys, vals) == [t |-> "obj", keys |-> keys, vals |-> vals]

ParseFail == [ok |-> FALSE, v |-> JNull, rest |-> <<>>]

ParseOk(v, rest) == [ok |-> TRUE, v |-> v, rest |-> rest]

HasKey(keys, k) == \E i \in 1..Len(keys) : keys[i] = k

\* Defining a property twice keeps its first position and its last value.
PutKeys(keys, k) == IF HasKey(keys, k) THEN keys ELSE Append(keys, k)

PutVals(keys, vals, k, v) ==
    IF HasKey(keys, k)
    THEN [i \in 1..Len(vals) |-> IF keys[i] = k THEN v ELSE vals[i]]
    ELSE Append(vals, v)

RECURSIVE ParseValue(_), ParseMembers(_, _, _)
ParseValue(toks) ==
    IF toks = <<>> THEN ParseFail
    ELSE LET h == Head(toks)
         IN  IF h = "null" THEN ParseOk(JNull, Tail(toks))
             ELSE IF h \in JsonStringTokens THEN ParseOk(JStr(h), Tail(toks))
             ELSE IF h \in Digit THEN ParseOk(JNum(h), Tail(toks))
             ELSE IF h = "{"
                  THEN IF Len(toks) >= 2 /\ toks[2] = "}"
                       THEN ParseOk(JObj(<<>>, <<>>), SubSeq(toks, 3, Len(toks)))
                       ELSE ParseMembers(Tail(toks), <<>>, <<>>)
             ELSE ParseFail

ParseMembers(toks, keys, vals) ==
    IF Len(toks) < 3 \/ toks[1] \notin JsonStringTokens \/ toks[2] # ":"
    THEN ParseFail
    ELSE LET r == ParseValue(SubSeq(toks, 3, Len(toks)))
             ks == PutKeys(keys, toks[1])
             vs == PutVals(keys, vals, toks[1], r.v)
         IN  IF ~r.ok \/ r.rest = <<>> THEN ParseFail
             ELSE IF Head(r.rest) = "}" THEN ParseOk(JObj(ks, vs), Tail(r.rest))
             ELSE IF Head(r.rest) = "," THEN ParseMembers(Tail(r.rest), ks, vs)
             ELSE ParseFail

JSONparse(text) ==
    LET r == ParseValue(text)
    IN  IF r.ok /\ r.rest = <<>> THEN Return(r.v) ELSE Throw(<<"SyntaxError">>)

\* data.key; reading a property of null or undefined is a TypeError.
CanGet(data) == data.t \notin {"null", "undefined"}

Get(data, key) ==
    IF data.t = "obj" /\ HasKey(data.keys, key)
    THEN data.vals[CHOOSE i \in 1..Len(data.keys) : data.keys[i] = key]
    ELSE JUndefined

\* data?.key
OptGet(data, key) == IF CanGet(data) THEN Get(data, key) ELSE JUndefined

\* JSON.stringify leaves out the properties whose value is undefined.
RECURSIVE JSONstringify(_), StringifyMembers(_, _, _)
JSONstringify(v) ==
    IF v.t = "null" THEN <<"null">>
    ELSE IF v.t \in {"str", "num"} THEN <<v.s>>
    ELSE <<"{">> \o StringifyMembers(v.keys, v.vals, TRUE) \o <<"}">>

StringifyMembers(keys, vals, first) ==
    IF keys = <<>> THEN <<>>
    ELSE IF Head(vals).t = "undefined" THEN StringifyMembers(Tail(keys), Tail(vals), first)
    ELSE (IF first THEN <<>> ELSE <<",">>)
         \o <<Head(keys), ":">> \o JSONstringify(Head(vals))
         \o StringifyMembers(Tail(keys), Tail(vals), FALSE)

SummaryKeys == <<"Name", "State", "Image", "Created", "Ports", "Env", "Mounts">>

\* A summary that copies the whole Config object besides two of its fields.
SummaryWithConfig(data) ==
    JObj(Append(SummaryKeys, "Config"),
         << Get(data, "Name"),
            Get(data, "State"),
            OptGet(Get(data, "Config"), "Image"),
            Get(data, "Created"),
            OptGet(Get(data, "NetworkSettings"), "Ports"),
            OptGet(Get(data, "Config"), "Env"),
            Get(data, "Mounts"),
            Get(data, "Config") >>)

\* The summary object of inspect-container, index.ts 602-610.
Summary(data) ==
    JObj(SummaryKeys,
         << Get(data, "Name"),
            Get(data, "State"),
            OptGet(Get(data, "Config"), "Image"),
            Get(data, "Created"),
            OptGet(Get(data, "NetworkSettings"), "Ports"),
            OptGet(Get(data, "Config"), "Env"),
            Get(data, "Mounts") >>)

-----------------------------------------------------------------------------
(* Tool calls *)

ToolNames == {"test-connection", "list-containers", "get-container-logs",
              "get-container-stats", "inspect-container", "docker-compose-logs"}

UnknownNames == {"bogus", "list_containers"}

\* process.env.SSH_HOST || "dokploy", with SSH_HOST unset.
DEFAULT_SSH_HOST == <<"d", "o", "k", "p", "l", "o", "y">>

\* The arguments of a call; all is "args.all is truthy", timestamps is
\* "args.timestamps is not the value false".
Base(name) ==
    [name |-> name, host |-> Undefined, container |-> Undefined, project |-> Undefined,
     service |-> Undefined, filter |-> Undefined, since |-> Undefined,
     tail |-> Undefined, all |-> FALSE, timestamps |-> TRUE]

Web == <<"w", "e", "b">>

IdChars == {"a", "Z", "7", "_", "-", ".", ":", ";", " ", "$", "/"}

IdInputs == Str(IdChars, MaxLen) \cup {Undefined}

HostVals == {Undefined, <<"p", "1">>, <<"p", ";", "x">>}

NameVals == {Undefined, <<>>, Web, <<"w", " ", "b">>, <<"$", "(", "x", ")">>}

TailVals == {Undefined, <<"5", "0">>, <<>>, <<"1", ";", "x">>}

FilterChars == GrepClass \cup {"a", " ", ".", "*", "-"}

FilterCore == {"$", "\"", ";", "a", " ", "*", "."}

FilterInputs ==
    {<<c>> : c \in FilterChars} \cup {<<"a", c, "*">> : c \in FilterChars}
        \cup Str(FilterCore, MaxLen + 1)
        \cup {Undefined, <<"w", ".", "*", " ", "b">>, <<"$", "(", "i", "d", ")">>}

Date == <<"2", "0", "2", "4", "-", "0", "1", "-", "0", "1">>

SinceExamples ==
    { <<"1", "h">>, <<"3", "0", "m">>, Date,
      Date \o <<"T", "1", "0", ":", "0", "0", ":", "0", "0">>,
      Date \o <<"T", "1", "0", ":", "0", "0">>,
      <<"1", " ", "h", "o", "u", "r">>,
      <<";", " ", "r", "m", " ", "-", "r", "f", " ", "/">>,
      <<"2", "0", "2", "4", "-", "1", "-", "0", "1">>,
      <<"2", "0", "2", "4", "0", "1", "0", "1">>,
      <<"x">> \o Date, <<"1", "h", "\n">>, <<"h">>, <<"1", "0", "0", "d">> }

SinceChars == {"1", "s", "h", "T", ":", " ", ";", "-"}

SinceInputs ==
    SinceExamples \cup Str(SinceChars, MaxLen)
        \cup {Date \o s : s \in Str(SinceChars, MaxSuffix)} \cup {Undefined}

SinceVals == {Undefined, <<"1", "h">>, <<"1", " ", "h">>}

Requests ==
    \* every tool name with a few hosts
    {[Base(n) EXCEPT !.host = h] : n \in ToolNames \cup UnknownNames, h \in HostVals}
    \* the host alias, character by character
    \cup {[Base(n) EXCEPT !.host = h] : n \in {"test-connection", "bogus"}, h \in IdInputs}
    \cup {[Base("list-containers") EXCEPT !.host = h, !.filter = f, !.all = a] :
            h \in HostVals, f \in {Undefined, <<>>, <<"a", ";">>}, a \in BOOLEAN}
    \cup {[Base("list-containers") EXCEPT !.filter = f] : f \in FilterInputs}
    \cup {[Base("get-container-logs") EXCEPT
              !.host = h, !.container = c, !.tail = t, !.since = s, !.timestamps = ts] :
            h \in HostVals, c \in NameVals, t \in TailVals, s \in SinceVals,
            ts \in BOOLEAN}
    \cup {[Base("get-container-logs") EXCEPT !.container = c] : c \in IdInputs}
    \cup {[Base("get-container-logs") EXCEPT !.container = Web, !.since = s] :
            s \in SinceInputs}
    \cup {[Base(n) EXCEPT !.host = h, !.container = c] :
            n \in {"get-container-stats", "inspect-container", "bogus"},
            h \in HostVals, c \in NameVals}
    \cup {[Base("docker-compose-logs") EXCEPT
              !.host = h, !.project = p, !.service = s, !.tail = t] :
            h \in HostVals, p \in NameVals, s \in NameVals, t \in TailVals}
    \cup {[Base("docker-compose-logs") EXCEPT !.project = p] : p \in IdInputs}
    \cup {[Base("docker-compose-logs") EXCEPT !.project = Web, !.service = s] :
            s \in IdInputs}

ExitCodes == {0, 1}

JsonFull ==
    <<"{", "Id", ":", "x", ",", "Name", ":", "x", ",",
      "State", ":", "{", "Status", ":", "x", "}", ",",
      "Config", ":", "{", "Image", ":", "x", ",", "Env", ":", "x", "}", ",",
      "Created", ":", "x", ",",
      "NetworkSettings", ":", "{", "Ports", ":", "null", "}", ",",
      "Mounts", ":", "x", "}">>

\* What the remote command may write to its standard output.
StdoutData ==
    { <<>>, <<"\n">>, <<"o", "k", "\n">>, <<" ", "o", "k">>, <<"o", "k", "a", "y">>,
      <<"l", "o", "g", " ", "1", "\n">>,
      JsonFull \o <<"\n">>,
      <<"{", "}">>, <<"null">>, <<"x">>,
      <<"{", "Name", ":", "x", ",", "Config", ":", "null", "}">>,
      <<"{", "Name", ":", "x", ",", "Id", ":", "7", "}">>,
      <<"{", "Name", ":">> }

StderrData == {<<>>, <<"e", "r", "r", "\n">>}

-----------------------------------------------------------------------------
(* State *)

VARIABLES
    pc,         \* the handler: "idle", "awaiting" (at await sshExec), "done"
    req,        \* request.params of the call
    outcome,    \* what the handler gave the protocol layer
    sshCalls,   \* invocations of sshExec
    execReq,    \* sshExec's command and options
    sshpc,      \* sshExec: "none", "race", "readStdout", "readStderr", "returned", "thrown"
    proc,       \* the ssh process: "none", "running", "exited"
    spawns,     \* processes spawned
    timer,      \* the setTimeout of sshExec: "none", "pending", "fired"
    kills,      \* calls of proc.kill()
    killedAlive, \* proc.kill() reached a running process
    exitCode,   \* what proc.exited resolved to
    stdoutRaw,  \* text read from proc.stdout
    stderrRaw,  \* text read from proc.stderr
    sshOutcome, \* how sshExec settled
    reports,    \* times the handler handed an outcome to the protocol layer
    drained     \* the output streams of the process read to end-of-stream

vars == <<pc, req, outcome, sshCalls, execReq, sshpc, proc, spawns, timer, kills,
          killedAlive, exitCode, stdoutRaw, stderrRaw, sshOutcome, reports,
          drained>>

NoOutcome == [kind |-> "none", isError |-> FALSE, text |-> <<>>]

\* A Tool Result returned by the handler.
ToolResult(text) == [kind |-> "result", isError |-> FALSE, text |-> text]

\* The result of the handler's catch block, index.ts 645-651.
ErrorResult(message) ==
    [kind |-> "result", isError |-> TRUE, text |-> <<"Error: ">> \o message]

\* An exception that left the handler.
Escaped(message) == [kind |-> "escaped", isError |-> TRUE, text |-> message]

NoSsh == [kind |-> "none", stdout |-> <<>>, stderr |-> <<>>, exitCode |-> 0, msg |-> <<>>]

SSHResult(out, err, code) ==
    [kind |-> "result", stdout |-> out, stderr |-> err, exitCode |-> code, msg |-> <<>>]

SSHError(kind, msg) ==
    [kind |-> kind, stdout |-> <<>>, stderr |-> <<>>, exitCode |-> 0, msg |-> msg]

NoExec == [command |-> <<>>, host |-> <<>>, timeout |-> ""]

\* What a case of the switch does before its first await: it calls sshExec or throws.
Exec(command, timeout) ==
    [kind |-> "exec", command |-> command, timeout |-> timeout, msg |-> <<>>]

Rejected(msg) == [kind |-> "throw", command |-> <<>>, timeout |-> "", msg |-> msg]

DefaultTimeout == "30000"

LogTimeout == "60000"

ProbeTimeout == "10000"

Init ==
    /\ pc = "idle"
    /\ req = Base("")
    /\ outcome = NoOutcome
    /\ sshCalls = 0
    /\ execReq = NoExec
    /\ sshpc = "none"
    /\ proc = "none"
    /\ spawns = 0
    /\ timer = "none"
    /\ kills = 0
    /\ killedAlive = FALSE
    /\ exitCode = 0
    /\ stdoutRaw = <<>>
    /\ stderrRaw = <<>>
    /\ sshOutcome = NoSsh
    /\ reports = 0
    /\ drained = {}

-----------------------------------------------------------------------------
(* The handler of CallToolRequestSchema, index.ts 504-652 *)

PsFormat == <<"--format \"table {{.Names}}\\t{{.Status}}\\t{{.Image}}\"">>

StatsFormat == <<"--format \"table {{.Name}}\\t{{.CPUPerc}}\\t{{.MemUsage}}\\t{{.NetIO}}\"">>

\* case "list-containers", 526-535
PrepareList(r) ==
    LET showAll == IF r.all THEN <<"-a">> ELSE <<>>
        command == <<"docker ps ">> \o showAll \o <<" ">> \o PsFormat
    IN  IF Truthy(r.filter)
        THEN Exec(command \o <<" | grep -E \"NAMES|">>
                      \o sanitizeGrepPattern(r.filter) \o <<"\"">>,
                  DefaultTimeout)
        ELSE Exec(command, DefaultTimeout)

\* case "get-container-logs", 547-558
PrepareLogs(r) ==
    IF ~Truthy(r.container) THEN Rejected(<<"Container name is required">>)
    ELSE LET safeContainer == sanitizeName(r.container)
             tail == Nullish(r.tail, <<"100">>)
             timestamps == IF r.timestamps THEN <<"-t">> ELSE <<>>
             checked == sanitizeTimestamp(r.since)
             since == IF Truthy(r.since) THEN <<"--since ">> \o checked.val ELSE <<>>
         IN  IF ~safeContainer.ok THEN Rejected(safeContainer.val)
             ELSE IF Truthy(r.since) /\ ~checked.ok THEN Rejected(checked.val)
             ELSE Exec(<<"docker logs ">> \o safeContainer.val \o <<" --tail ">> \o tail
                           \o <<" ">> \o timestamps \o <<" ">> \o since \o <<" 2>&1">>,
                       LogTimeout)

\* case "get-container-stats", 570-574
PrepareStats(r) ==
    LET checked == sanitizeName(r.container)
        container == IF Truthy(r.container) THEN checked.val ELSE <<>>
    IN  IF Truthy(r.container) /\ ~checked.ok THEN Rejected(checked.val)
        ELSE Exec(<<"docker stats --no-stream ">> \o StatsFormat \o <<" ">> \o container,
                  DefaultTimeout)

\* case "inspect-container", 586-593
PrepareInspect(r) ==
    IF ~Truthy(r.container) THEN Rejected(<<"Container name is required">>)
    ELSE LET safeContainer == sanitizeName(r.container)
         IN  IF ~safeContainer.ok THEN Rejected(safeContainer.val)
             ELSE Exec(<<"docker inspect ">> \o safeContainer.val
                           \o <<" --format '{{json .}}'">>,
                       DefaultTimeout)

\* case "docker-compose-logs", 622-631
PrepareCompose(r) ==
    IF ~Truthy(r.project) THEN Rejected(<<"Project name is required">>)
    ELSE LET safeProject == sanitizeName(r.project)
             checked == sanitizeName(r.service)
             safeService == IF Truthy(r.service) THEN checked.val ELSE <<>>
             tail == Nullish(r.tail, <<"100">>)
         IN  IF ~safeProject.ok THEN Rejected(safeProject.val)
             ELSE IF Truthy(r.service) /\ ~checked.ok THEN Rejected(checked.val)
             ELSE Exec(<<"docker compose -p ">> \o safeProject.val \o <<" logs --tail ">>
                           \o tail \o <<" ">> \o safeService \o <<" 2>&1">>,
                       LogTimeout)

\* The switch, up to the call of sshExec.
Prepare(r) ==
    CASE r.name = "test-connection" -> Exec(<<"echo 'ok'">>, ProbeTimeout)
      [] r.name = "list-containers" -> PrepareList(r)
      [] r.name = "get-container-logs" -> PrepareLogs(r)
      [] r.name = "get-container-stats" -> PrepareStats(r)
      [] r.name = "inspect-container" -> PrepareInspect(r)
      [] r.name = "docker-compose-logs" -> PrepareCompose(r)
      [] OTHER -> Rejected(<<"Unknown tool: ", r.name>>)

\* testConnection, ssh.ts 65-72
testConnection(so) ==
    IF so.kind = "result"
    THEN so.exitCode = 0 /\ so.stdout = <<"o", "k">>
    ELSE FALSE

\* case "test-connection", 512-522
AfterProbe(host, so) ==
    ToolResult(IF testConnection(so)
               THEN <<"Successfully connected to ">> \o host
               ELSE <<"Failed to connect to ">> \o host \o <<". Check your SSH config.">>)

\* list-containers 537-543 and get-container-stats 576-582
AfterPlain(so, failed) ==
    IF so.exitCode # 0
    THEN ErrorResult(OrElse(so.stderr, failed))
    ELSE ToolResult(so.stdout)

\* A log tool that treats every non-zero exit status as a failure.
AfterLogsStrict(so, failed) ==
    IF so.exitCode # 0
    THEN ErrorResult(OrElse(so.stderr, OrElse(so.stdout, failed)))
    ELSE ToolResult(OrElse(so.stdout, so.stderr))

\* get-container-logs 560-566 and docker-compose-logs 633-639
AfterLogs(so, failed) ==
    IF so.exitCode # 0 /\ ~Truthy(so.stdout)
    THEN ErrorResult(OrElse(so.stderr, OrElse(so.stdout, failed)))
    ELSE ToolResult(OrElse(so.stdout, so.stderr))

\* inspect-container 595-618
AfterInspect(so) ==
    IF so.exitCode # 0
    THEN ErrorResult(OrElse(so.stderr, <<"Failed to inspect container">>))
    ELSE LET data == JSONparse(so.stdout)
         IN  IF data.ok /\ CanGet(data.val)
             THEN ToolResult(JSONstringify(Summary(data.val)))
             ELSE ToolResult(so.stdout)

\* The handler from the settling of sshExec to its return.
AfterExec(r, host, so) ==
    IF r.name = "test-connection" THEN AfterProbe(host, so)
    ELSE IF so.kind # "result" THEN ErrorResult(so.msg)
    ELSE CASE r.name = "list-containers" ->
                AfterPlain(so, <<"Failed to list containers">>)
           [] r.name = "get-container-stats" ->
                AfterPlain(so, <<"Failed to get container stats">>)
           [] r.name = "get-container-logs" ->
                AfterLogs(so, <<"Failed to get container logs">>)
           [] r.name = "docker-compose-logs" ->
                AfterLogs(so, <<"Failed to get compose logs">>)
           [] r.name = "inspect-container" -> AfterInspect(so)

-----------------------------------------------------------------------------
(* sshExec, ssh.ts 21-60 *)

Includes(msg, piece) == \E i \in 1..Len(msg) : msg[i] = piece

TimeoutMessage(timeout) == <<"SSH command ", "timed out", " after ", timeout, "ms">>

\* A catch block that wraps every error, the timeout included.
sshCatchWrapAll(msg) ==
    SSHError("failure", <<"SSH execution failed: ", "Error: ">> \o msg)

\* The catch block, 54-59.
sshCatch(msg) ==
    IF Includes(msg, "timed out")
    THEN SSHError("timeout", msg)
    ELSE SSHError("failure", <<"SSH execution failed: ", "Error: ">> \o msg)

\* The handler's first part: host, switch, and sshExec up to its first await.
\* spawnOk is whether Bun.spawn finds and starts the ssh program.
Handler(r, spawnOk) ==
    /\ pc = "idle"
    /\ req' = r
    /\ LET host == sanitizeName(OrElse(r.host, DEFAULT_SSH_HOST))
           p == Prepare(r)
           so == SSHError("spawn", <<"Executable not found in $PATH: \"ssh\"">>)
       IN  IF ~host.ok
           THEN /\ pc' = "done"
                /\ outcome' = Escaped(host.val)
                /\ UNCHANGED <<sshCalls, execReq, sshpc, proc, spawns, timer, sshOutcome>>
           ELSE IF p.kind = "throw"
           THEN /\ pc' = "done"
                /\ outcome' = ErrorResult(p.msg)
                /\ UNCHANGED <<sshCalls, execReq, sshpc, proc, spawns, timer, sshOutcome>>
           ELSE /\ sshCalls' = sshCalls + 1
                /\ execReq' = [command |-> p.command, host |-> host.val,
                               timeout |-> p.timeout]
                /\ IF spawnOk
                   THEN /\ pc' = "awaiting"
                        /\ sshpc' = "race"
                        /\ proc' = "running"
                        /\ spawns' = spawns + 1
                        /\ timer' = "pending"
                        /\ UNCHANGED <<outcome, sshOutcome>>
                   ELSE /\ pc' = "done"
                        /\ sshpc' = "thrown"
                        /\ sshOutcome' = so
                        /\ outcome' = AfterExec(r, host.val, so)
                        /\ UNCHANGED <<proc, spawns, timer>>
    /\ reports' = IF pc' = "done" THEN reports + 1 ELSE reports
    /\ UNCHANGED <<kills, killedAlive, exitCode, stdoutRaw, stderrRaw, drained>>

\* proc.exited resolves; when the race is still open it decides it (41-44).
ProcExit(code) ==
    /\ proc = "running"
    /\ proc' = "exited"
    /\ exitCode' = code
    /\ sshpc' = IF sshpc = "race" THEN "readStdout" ELSE sshpc
    /\ UNCHANGED <<pc, req, outcome, sshCalls, execReq, spawns, timer, kills,
                   killedAlive, stdoutRaw, stderrRaw, sshOutcome, reports, drained>>

\* A timeout that starts the command again instead of failing the call.
TimerFireRetry ==
    /\ timer = "pending"
    /\ kills' = kills + 1
    /\ killedAlive' = (proc = "running")
    /\ IF sshpc = "race"
       THEN /\ sshCalls' = sshCalls + 1
            /\ spawns' = spawns + 1
            /\ timer' = "pending"
            /\ proc' = "running"
       ELSE /\ timer' = "fired"
            /\ UNCHANGED <<sshCalls, spawns, proc>>
    /\ UNCHANGED <<pc, req, outcome, execReq, sshpc, exitCode, stdoutRaw, stderrRaw,
                   sshOutcome, reports, drained>>

\* The setTimeout callback (34-37): proc.kill(), then reject; the rejection
\* counts only while the race is open, and then sshExec throws it and the
\* handler resumes.
TimerFire ==
    /\ timer = "pending"
    /\ timer' = "fired"
    /\ kills' = kills + 1
    /\ killedAlive' = (proc = "running")
    /\ IF sshpc = "race"
       THEN LET so == sshCatch(TimeoutMessage(execReq.timeout))
            IN  /\ sshpc' = "thrown"
                /\ sshOutcome' = so
                /\ outcome' = AfterExec(req, execReq.host, so)
                /\ pc' = "done"
                /\ reports' = reports + 1
       ELSE UNCHANGED <<sshpc, sshOutcome, outcome, pc, reports>>
    /\ UNCHANGED <<req, sshCalls, execReq, proc, spawns, exitCode, stdoutRaw, stderrRaw,
                   drained>>

\* An sshExec that returns as soon as stdout is read, leaving stderr undrained.
ReadStdoutReturns(data) ==
    /\ sshpc = "readStdout"
    /\ stdoutRaw' = data
    /\ drained' = drained \cup {"stdout"}
    /\ LET so == SSHResult(Trim(data), <<>>, exitCode)
       IN  /\ sshpc' = "returned"
           /\ sshOutcome' = so
           /\ outcome' = AfterExec(req, execReq.host, so)
           /\ pc' = "done"
           /\ reports' = reports + 1
    /\ UNCHANGED <<req, sshCalls, execReq, proc, spawns, timer, kills, killedAlive,
                   exitCode, stderrRaw>>

\* await new Response(proc.stdout).text() completes: the stream reached its end (46).
ReadStdout(data) ==
    /\ sshpc = "readStdout"
    /\ stdoutRaw' = data
    /\ sshpc' = "readStderr"
    /\ drained' = drained \cup {"stdout"}
    /\ UNCHANGED <<pc, req, outcome, sshCalls, execReq, proc, spawns, timer, kills,
                   killedAlive, exitCode, stderrRaw, sshOutcome, reports>>

\* The same for proc.stderr (47); sshExec returns (49-53) and the handler resumes.
ReadStderr(data) ==
    /\ sshpc = "readStderr"
    /\ stderrRaw' = data
    /\ LET so == SSHResult(Trim(stdoutRaw), Trim(data), exitCode)
       IN  /\ sshpc' = "returned"
           /\ sshOutcome' = so
           /\ outcome' = AfterExec(req, execReq.host, so)
           /\ pc' = "done"
           /\ reports' = reports + 1
    /\ drained' = drained \cup {"stderr"}
    /\ UNCHANGED <<req, sshCalls, execReq, proc, spawns, timer, kills, killedAlive,
                   exitCode, stdoutRaw>>

\* Reading a stream fails: the catch block wraps the error (58).
ReadFails ==
    /\ sshpc \in {"readStdout", "readStderr"}
    /\ LET so == sshCatch(<<"read failed">>)
       IN  /\ sshpc' = "thrown"
           /\ sshOutcome' = so
           /\ outcome' = AfterExec(req, execReq.host, so)
           /\ pc' = "done"
           /\ reports' = reports + 1
    /\ UNCHANGED <<req, sshCalls, execReq, proc, spawns, timer, kills, killedAlive,
                   exitCode, stdoutRaw, stderrRaw, drained>>

\* A tool call arrives at the idle server.
CallTool ==
    /\ pc = "idle"
    /\ \E r \in Requests, spawnOk \in BOOLEAN : Handler(r, spawnOk)

Next ==
    \/ CallTool
    \/ \E code \in ExitCodes : ProcExit(code)
    \/ TimerFire
    \/ \E data \in StdoutData : ReadStdout(data)
    \/ \E data \in StderrData : ReadStderr(data)
    \/ ReadFails

Spec == Init /\ [][Next]_vars

\* The event loop runs the callback of a timer that is due: an armed setTimeout
\* (34-37) fires eventually. Nothing obliges the remote process to exit or a
\* pipe to reach end-of-stream, so the other steps carry no fairness.
FairSpec == Spec /\ WF_vars(TimerFire)
-----------------------------------------------------------------------------
(* Properties *)

\* The identifier alphabet [A-Za-z0-9_.:-] as the specification writes it.
IdentifierChars ==
    {"A","B","C","D","E","F","G","H","I","J","K","L","M","N","O","P","Q","R","S","T",
     "U","V","W","X","Y","Z","a","b","c","d","e","f","g","h","i","j","k","l","m","n",
     "o","p","q","r","s","t","u","v","w","x","y","z","0","1","2","3","4","5","6","7",
     "8","9","_",".",":","-"}

HasForeignChar(x) == \E i \in 1..Len(x) : x[i] \notin IdentifierChars

\* The identifiers a call puts on the ssh command line.
IdentifierArgs(r) ==
    {OrElse(r.host, DEFAULT_SSH_HOST)}
    \cup (IF r.name \in {"get-container-logs", "get-container-stats", "inspect-container"}
             /\ Truthy(r.container)
          THEN {r.container} ELSE {})
    \cup (IF r.name = "docker-compose-logs" /\ Truthy(r.project) THEN {r.project} ELSE {})
    \cup (IF r.name = "docker-compose-logs" /\ Truthy(r.service) THEN {r.service} ELSE {})

\* The message of an error, whether returned as a Tool Result or thrown.
ErrorMessage(o) == IF o.kind = "result" THEN Tail(o.text) ELSE o.text

InvalidArgumentMessages ==
    {"Invalid characters in input: ", "Invalid timestamp format: ",
     "Container name is required", "Project name is required"}

IsInvalidArgument(o) ==
    /\ o.kind \in {"result", "escaped"}
    /\ o.isError
    /\ ErrorMessage(o) # <<>>
    /\ Head(ErrorMessage(o)) \in InvalidArgumentMessages

HostValid(r) == ~HasForeignChar(OrElse(r.host, DEFAULT_SSH_HOST))

\* C1: a call with an identifier argument that has a character outside
\* [A-Za-z0-9_.:-] ends with an invalid-argument error, and sshExec is never
\* invoked during it.
C1_ForeignCharRejected ==
    (pc # "idle" /\ \E x \in IdentifierArgs(req) : HasForeignChar(x))
        => /\ pc = "done"
           /\ sshCalls = 0
           /\ spawns = 0
           /\ IsInvalidArgument(outcome)

C1_Witness ==
    /\ pc = "done"
    /\ req.name = "docker-compose-logs"
    /\ HostValid(req)
    /\ ~HasForeignChar(req.project)
    /\ Truthy(req.service) /\ HasForeignChar(req.service)
    /\ outcome = ErrorResult(<<"Invalid characters in input: ">> \o req.service)
    /\ sshCalls = 0

\* C2: every error of a call is returned as a Tool Result with isError set; no
\* exception leaves the handler.
C2_NoExceptionEscapes ==
    pc = "done" => outcome.kind = "result"

\* The characters that change how the remote shell parses a command line.
ShellMeta == {";", "&", "|", Backtick, "$", "(", ")", "{", "}", "[", "]",
              "<", ">", "\\", "!", "\"", "'"}

\* The command without the one-character literal that closes the grep pattern.
WithoutClosingQuote(command) ==
    IF Includes(command, " | grep -E \"NAMES|")
    THEN SubSeq(command, 1, Len(command) - 1)
    ELSE command

\* C3: no command that reaches sshExec carries a caller-supplied character that
\* no sanitizer or validator has passed: none of its caller-supplied characters is
\* a shell metacharacter.
C3_CommandSanitized ==
    sshCalls > 0 =>
        \A i \in 1..Len(WithoutClosingQuote(execReq.command)) :
            execReq.command[i] \notin ShellMeta

\* C4: when the timer fires while the process is still running, the process is
\* killed and sshExec fails with the timeout error; it returns no SSHResult, and
\* no output is reported.
C4_TimeoutKills ==
    killedAlive =>
        /\ kills = 1
        /\ sshpc = "thrown"
        /\ sshOutcome.kind = "timeout"
        /\ sshOutcome.msg = <<"SSH command ", "timed out", " after ", execReq.timeout, "ms">>
        /\ sshOutcome.stdout = <<>>
        /\ pc = "done"
        /\ req.name # "test-connection" => outcome = ErrorResult(sshOutcome.msg)

C4_Witness ==
    /\ killedAlive
    /\ proc = "exited"
    /\ req.name = "get-container-logs"
    /\ execReq.timeout = "60000"
    /\ outcome.isError

\* C5: a call with an unknown tool name yields the unknown-tool error result,
\* whatever its arguments, and never invokes sshExec.
C5_UnknownTool ==
    (pc = "done" /\ req.name \notin ToolNames)
        => /\ outcome = ErrorResult(<<"Unknown tool: ", req.name>>)
           /\ sshCalls = 0

LogTools == {"get-container-logs", "docker-compose-logs"}

\* C6: for the two log tools, once the executor has returned: a non-zero exit
\* status with non-empty stdout is a success carrying that stdout, a non-zero
\* exit status with empty stdout is an error result, and exit status 0 is never
\* an error.
C6_LogResult ==
    (req.name \in LogTools /\ sshOutcome.kind = "result")
        => /\ outcome.kind = "result"
           /\ (sshOutcome.exitCode # 0 /\ sshOutcome.stdout # <<>>)
                 => (~outcome.isError /\ outcome.text = sshOutcome.stdout)
           /\ (sshOutcome.exitCode # 0 /\ sshOutcome.stdout = <<>>) => outcome.isError
           /\ sshOutcome.exitCode = 0 => ~outcome.isError

C6_Witness ==
    /\ req.name = "get-container-logs"
    /\ sshOutcome.kind = "result"
    /\ sshOutcome.exitCode = 1
    /\ sshOutcome.stdout = <<"l", "o", "g", " ", "1">>
    /\ outcome = ToolResult(sshOutcome.stdout)

ReportsSuccess(o) == o.text # <<>> /\ Head(o.text) = "Successfully connected to "

\* C7: test-connection reports success exactly when the probe exited with
\* status 0 and its trimmed stdout is "ok", and otherwise failure; the call
\* never raises an exception.
C7_ProbeNeverThrows ==
    (pc = "done" /\ req.name = "test-connection")
        => /\ outcome.kind = "result"
           /\ ~outcome.isError
           /\ ReportsSuccess(outcome)
                 <=> /\ sshpc = "returned"
                     /\ exitCode = 0
                     /\ Trim(stdoutRaw) = <<"o", "k">>

InspectDone ==
    /\ pc = "done"
    /\ req.name = "inspect-container"
    /\ sshOutcome.kind = "result"
    /\ sshOutcome.exitCode = 0

SevenFields == {"Name", "State", "Image", "Created", "Ports", "Env", "Mounts"}

IsObjectText(text) == JSONparse(text).ok /\ JSONparse(text).val.t = "obj"

FieldsOf(text) ==
    LET o == JSONparse(text).val IN {o.keys[i] : i \in 1..Len(o.keys)}

\* Where each field of the summary comes from in the inspected document.
SourcePath(field) ==
    CASE field = "Image" -> <<"Config", "Image">>
      [] field = "Env" -> <<"Config", "Env">>
      [] field = "Ports" -> <<"NetworkSettings", "Ports">>
      [] OTHER -> <<field>>

RECURSIVE At(_, _)
At(data, path) ==
    IF path = <<>> THEN data
    ELSE IF data.t = "obj" /\ HasKey(data.keys, Head(path))
    THEN At(Get(data, Head(path)), Tail(path))
    ELSE JUndefined

\* C8 as claimed: with exit status 0, a stdout that parses as JSON gives a summary
\* with exactly the fields Name, State, Image, Created, Ports, Env and Mounts, and
\* a stdout that does not parse is returned unchanged, not as an error.
C8_ExactlySevenFields ==
    InspectDone =>
        /\ outcome.kind = "result" /\ ~outcome.isError
        /\ IF JSONparse(sshOutcome.stdout).ok
           THEN IsObjectText(outcome.text) /\ FieldsOf(outcome.text) = SevenFields
           ELSE outcome.text = sshOutcome.stdout

\* C8 as amended: a stdout that parses to a JSON value other than null gives a
\* summary object whose fields are those of the seven whose source value is
\* present in the document, each with that value; a stdout that does not parse, or
\* parses to null, is returned unchanged; neither is an error.
C8_SummaryFields ==
    InspectDone =>
        /\ outcome.kind = "result" /\ ~outcome.isError
        /\ LET data == JSONparse(sshOutcome.stdout)
           IN  IF data.ok /\ data.val # JNull
               THEN /\ IsObjectText(outcome.text)
                    /\ FieldsOf(outcome.text)
                         = {f \in SevenFields : At(data.val, SourcePath(f)) # JUndefined}
                    /\ \A f \in FieldsOf(outcome.text) :
                         Get(JSONparse(outcome.text).val, f) = At(data.val, SourcePath(f))
               ELSE outcome.text = sshOutcome.stdout

C8_Witness ==
    /\ InspectDone
    /\ JSONparse(sshOutcome.stdout).ok
    /\ IsObjectText(sshOutcome.stdout)
    /\ HasKey(JSONparse(sshOutcome.stdout).val.keys, "Id")
    /\ HasKey(JSONparse(sshOutcome.stdout).val.keys, "Config")
    /\ FieldsOf(outcome.text) = SevenFields

Units == {"s", "m", "h", "d"}

IsDigits(s) == \A i \in 1..Len(s) : s[i] \in Digit

\* An integer followed by one unit letter.
IsRelative(s) ==
    /\ Len(s) >= 2
    /\ IsDigits(SubSeq(s, 1, Len(s) - 1))
    /\ s[Len(s)] \in Units

\* dddd-dd-dd
IsIsoDate(s) ==
    /\ Len(s) = 10
    /\ IsDigits(SubSeq(s, 1, 4)) /\ s[5] = "-"
    /\ IsDigits(SubSeq(s, 6, 7)) /\ s[8] = "-"
    /\ IsDigits(SubSeq(s, 9, 10))

\* hh:mm or hh:mm:ss
IsTimeOfDay(s) ==
    /\ Len(s) \in {5, 8}
    /\ IsDigits(SubSeq(s, 1, 2)) /\ s[3] = ":"
    /\ IsDigits(SubSeq(s, 4, 5))
    /\ Len(s) = 8 => (s[6] = ":" /\ IsDigits(SubSeq(s, 7, 8)))

\* The part of s after a date and the letter T, or nothing when s has no such part.
AfterDateT(s) ==
    IF Len(s) >= 12 /\ IsIsoDate(SubSeq(s, 1, 10)) /\ s[11] = "T"
    THEN SubSeq(s, 12, Len(s))
    ELSE <<>>

IsDigitsAndColons(s) == \A i \in 1..Len(s) : s[i] \in Digit \cup {":"}

\* The since values the claim says are accepted.
ClaimedSince(s) == IsRelative(s) \/ IsIsoDate(s) \/ IsTimeOfDay(AfterDateT(s))

\* The since values the amended claim says are accepted.
AmendedSince(s) ==
    \/ IsRelative(s)
    \/ IsIsoDate(s)
    \/ (AfterDateT(s) # <<>> /\ IsDigitsAndColons(AfterDateT(s)))

AcceptedExamples ==
    { <<"1", "h">>, <<"3", "0", "m">>, Date,
      Date \o <<"T", "1", "0", ":", "0", "0", ":", "0", "0">> }

RejectedExamples ==
    { <<"1", " ", "h", "o", "u", "r">>,
      <<";", " ", "r", "m", " ", "-", "r", "f", " ", "/">> }

\* A get-container-logs call that got as far as checking a since value.
SinceChecked ==
    /\ pc # "idle"
    /\ req.name = "get-container-logs"
    /\ HostValid(req)
    /\ Truthy(req.container) /\ ~HasForeignChar(req.container)
    /\ Truthy(req.since)

CarriesSince(command, since) ==
    \E i \in 1..Len(command) :
        /\ command[i] = "--since "
        /\ SubSeq(command, i + 1, Len(command)) = since \o <<" 2>&1">>

\* What a get-container-logs call does with its since value, given whether that
\* value counts as valid.
SinceHandled(accepted) ==
    /\ SinceChecked =>
          IF accepted
          THEN sshCalls = 1 /\ CarriesSince(execReq.command, req.since)
          ELSE /\ pc = "done"
               /\ outcome = ErrorResult(<<"Invalid timestamp format: ">> \o req.since)
    /\ (pc # "idle" /\ req.name = "get-container-logs" /\ Truthy(req.since)
           /\ ~accepted)
          => (pc = "done" /\ sshCalls = 0 /\ IsInvalidArgument(outcome))
    /\ (SinceChecked /\ req.since \in AcceptedExamples) => sshCalls = 1
    /\ (SinceChecked /\ req.since \in RejectedExamples) => sshCalls = 0

\* C9 as claimed: the since validator accepts exactly an integer followed by one
\* of s, m, h, d, or an ISO-style date optionally followed by a time of day; the
\* four examples pass and the two counter-examples fail; a get-container-logs call
\* with a rejected value fails with an invalid-argument error and no sshExec.
C9_SinceExactlyClaimed == SinceHandled(ClaimedSince(req.since))

\* C9 as amended: the date may be followed by T and any non-empty run of digits
\* and colons, not only by a time of day.
C9_SinceValidated == SinceHandled(AmendedSince(req.since))

C9_Witness ==
    /\ SinceChecked
    /\ req.since = <<";", " ", "r", "m", " ", "-", "r", "f", " ", "/">>
    /\ pc = "done"
    /\ sshCalls = 0
    /\ outcome.isError

\* A list-containers call that applies a filter.
FilterApplied ==
    /\ pc # "idle"
    /\ req.name = "list-containers"
    /\ HostValid(req)
    /\ Truthy(req.filter)

FailureReportedOnce ==
    sshpc = "thrown" =>
        /\ pc = "done"
        /\ reports = 1
        /\ outcome = AfterExec(req, execReq.host, sshOutcome)

\* C11 as stated: a tool call makes at most one sshExec call, every sshExec call
\* has spawned exactly one ssh process, nothing is retried, and a failed or
\* timed-out execution is reported to the caller exactly once.
C11_OneProcessPerCall ==
    /\ sshCalls <= 1
    /\ spawns = sshCalls
    /\ reports <= 1
    /\ FailureReportedOnce

\* C11 as amended: a tool call makes at most one sshExec call, every sshExec call
\* makes one attempt to spawn ssh, which starts one process unless Bun.spawn
\* itself throws (then there is no process and the call fails at once); nothing
\* is retried, and a failed or timed-out execution is reported exactly once.
C11_SingleExecution ==
    /\ sshCalls <= 1
    /\ spawns <= sshCalls
    /\ spawns < sshCalls => sshOutcome.kind = "spawn" /\ sshpc = "thrown"
    /\ reports <= 1
    /\ reports = 1 <=> pc = "done"
    /\ FailureReportedOnce

C11_Witness ==
    /\ sshOutcome.kind = "timeout"
    /\ proc = "exited"
    /\ sshCalls = 1
    /\ spawns = 1
    /\ reports = 1
    /\ outcome.isError

\* Which side of Promise.race (41-44) settled first in the sshExec call.
ExitedFirst == proc = "exited" /\ sshOutcome.kind # "timeout"
TimerFirst == sshOutcome.kind = "timeout"

\* The winner of the race decides the outcome: after the process exited first
\* the call never becomes a timeout error, and after the timer fired first the
\* process was killed while running and the call stays a timeout error, also
\* once the killed process has exited.
RaceDecidesOutcome ==
    /\ ExitedFirst => ~killedAlive /\ sshpc # "race"
    /\ TimerFirst =>
          /\ killedAlive
          /\ kills = 1
          /\ sshpc = "thrown"
          /\ sshOutcome.msg = TimeoutMessage(execReq.timeout)
          /\ reports = 1

\* After the process exited first the timer issues no kill.
NoKillAfterExit == ExitedFirst => kills = 0

\* C12: whichever of "process exited" and "timer fired" happens first decides
\* the outcome and the loser is discarded: after an exit the timer issues no
\* kill and makes no timeout error; after the timer fired the process is killed
\* and its later exit changes nothing.
C12_LoserDiscarded == RaceDecidesOutcome /\ NoKillAfterExit

\* An error of sshExec that is not a timeout: the wrapped error of the catch
\* block (58), or the error Bun.spawn throws when ssh cannot be started (27).
IsExecutionFailure(so) == so.kind \in {"failure", "spawn"}

\* sshExec has settled: it returned or it threw.
Settled == sshpc \in {"returned", "thrown"}

\* C13: an sshExec call ends with exactly one outcome, an SSHResult or a timeout
\* error or an execution-failure error, never a result together with an error;
\* an SSHResult exists only once the process has exited and both stdout and
\* stderr were read to end-of-stream, and it carries exactly what was read.
C13_OneOutcome ==
    /\ Settled <=> sshOutcome.kind # "none"
    /\ Settled => sshCalls = 1 /\ reports = 1
    /\ sshpc = "returned" <=> sshOutcome.kind = "result"
    /\ sshpc = "thrown" <=> sshOutcome.kind = "timeout" \/ IsExecutionFailure(sshOutcome)
    /\ sshOutcome.kind = "result" =>
          /\ sshOutcome.msg = <<>>
          /\ proc = "exited"
          /\ ~killedAlive
          /\ drained = {"stdout", "stderr"}
          /\ sshOutcome = SSHResult(Trim(stdoutRaw), Trim(stderrRaw), exitCode)
    /\ sshOutcome.kind # "result" =>
          /\ sshOutcome.stdout = <<>>
          /\ sshOutcome.stderr = <<>>
          /\ sshOutcome.kind # "none" => sshOutcome.msg # <<>>

C13_Witness ==
    /\ sshpc = "returned"
    /\ timer = "fired"
    /\ drained = {"stdout", "stderr"}
    /\ sshOutcome.exitCode = 1
    /\ sshOutcome.stderr # <<>>
    /\ stderrRaw # sshOutcome.stderr

\* C14: once the timeout of an sshExec call has elapsed the call eventually
\* completes (it returns or throws), whether the process never exits by itself
\* or has exited while one of its output streams never reaches end-of-stream.
C14_CompletesAfterTimeout == (timer = "fired") ~> Settled
====
